---- MODULE Spec2Model ----
(***************************************************************************)
(* Model of todo.py: a Streamlit to-do list whose whole state is the JSON  *)
(* file todos.json plus the per-row "editing_<id>" session flags.  Every   *)
(* user interaction runs a handler that loads the whole file, changes the  *)
(* list in memory, saves the whole list and reruns the script.             *)
(***************************************************************************)
EXTENDS Integers, Sequences, FiniteSets

\* ------------------------------------------------------------------ bounds
MaxTasks == 2        \* longest list an add may extend
MaxId == 2           \* largest id an add may assign
MaxFilterLen == 3    \* longest list handed to the filter specification
MaxAnalyticsLen == 5 \* longest list handed to the analytics specification

\* ------------------------------------------------------------------ inputs
\* Text is a sequence of characters; " " is the only whitespace character.
SP == " "

\* What the user types into the add form and the edit form: a title, a choice
\* of the priority selectbox and a category.
Forms ==
  { [title |-> <<>>, priority |-> "Low", category |-> <<>>],
    [title |-> <<SP>>, priority |-> "High", category |-> <<SP, "w">>],
    [title |-> <<SP, "a", SP>>, priority |-> "Low", category |-> <<>>],
    [title |-> <<"a">>, priority |-> "High", category |-> <<SP, "w">>] }

\* The categories and priorities of the tasks handed to the filter.
FilterCategories == { <<>>, <<"w">>, <<"h">> }

FilterPriorities == { "Low", "High" }

PriorityOptions == { "Low", "Medium", "High" }

SaveOutcomes == { "ok", "unchanged", "partial" }

\* ------------------------------------------------------------------ state
VARIABLES
  file,      \* todos.json: [kind, data]
  editing,   \* ids i with st.session_state["editing_<i>"] = True
  last,      \* what the last script run did (operation, target, messages)
  issued,    \* history: the largest id any add has assigned so far
  view,      \* what the last filtered listing showed
  metrics    \* what the last analytics rendering showed

vars == <<file, editing, last, issued, view, metrics>>

\* ------------------------------------------------------------------ text
RECURSIVE lstrip(_)
lstrip(s) == IF s # <<>> /\ Head(s) = SP THEN lstrip(Tail(s)) ELSE s

RECURSIVE rstrip(_)
rstrip(s) ==
  IF s # <<>> /\ s[Len(s)] = SP THEN rstrip(SubSeq(s, 1, Len(s) - 1)) ELSE s

\* A faulty variant: the title is tested and stored as typed.
strip_not_applied(s) == s

strip(s) == rstrip(lstrip(s))

\* ------------------------------------------------------------------ store
Absent == [kind |-> "absent", data |-> <<>>]

Garbage == [kind |-> "garbage", data |-> <<>>]

NotList == [kind |-> "notlist", data |-> <<>>]

ListFile(todos) == [kind |-> "list", data |-> todos]

\* save_todos: the file after the call, and whether it returned True.
save_todos(f, todos, o) ==
  CASE o = "ok"        -> [file |-> ListFile(todos), ok |-> TRUE, errs |-> {}]
    [] o = "unchanged" -> [file |-> f, ok |-> FALSE, errs |-> {"save"}]
    [] o = "partial"   -> [file |-> Garbage, ok |-> FALSE, errs |-> {"save"}]

\* load_todos: the list returned, the messages shown, and the file afterwards
\* (a missing file is created empty; o is the outcome of that write).
load_todos(f, o) ==
  CASE f.kind = "list"    -> [data |-> f.data, errs |-> {}, file |-> f]
    [] f.kind = "notlist" -> [data |-> <<>>, errs |-> {}, file |-> f]
    [] f.kind = "garbage" -> [data |-> <<>>, errs |-> {"load"}, file |-> f]
    [] f.kind = "absent"  ->
         LET s == save_todos(f, <<>>, o)
         IN  [data |-> <<>>, errs |-> s.errs, file |-> s.file]

Ids(todos) == { todos[i].id : i \in DOMAIN todos }

MaxOf(S) == CHOOSE m \in S : \A x \in S : x <= m

\* A faulty variant: the next id is taken from the length of the list.
get_next_id_by_count(todos) == Len(todos) + 1

\* A faulty variant: the first id is 0.
get_next_id_from_zero(todos) ==
  IF todos = <<>> THEN 0 ELSE MaxOf(Ids(todos)) + 1

get_next_id(todos) == IF todos = <<>> THEN 1 ELSE MaxOf(Ids(todos)) + 1

\* ------------------------------------------------------------------ query
IsActive(t) == ~t.completed

IsCompleted(t) == t.completed

active_todos(todos) == SelectSeq(todos, IsActive)

completed_todos(todos) == SelectSeq(todos, IsCompleted)

\* The category options of a listing: the distinct non-empty categories.
categories(rows) ==
  { rows[i].category : i \in DOMAIN rows } \ { <<>> }

\* A faulty variant: the priority filter is applied to the unfiltered listing.
filter_by_restarting(rows, filter_category, filter_priority) ==
  LET InCat(t) == t.category \in filter_category
      InPri(t) == t.priority \in filter_priority
      byCat == IF filter_category # {} THEN SelectSeq(rows, InCat) ELSE rows
  IN  IF filter_priority # {} THEN SelectSeq(rows, InPri) ELSE byCat

filter_by(rows, filter_category, filter_priority) ==
  LET InCat(t) == t.category \in filter_category
      InPri(t) == t.priority \in filter_priority
      byCat == IF filter_category # {} THEN SelectSeq(rows, InCat) ELSE rows
  IN  IF filter_priority # {} THEN SelectSeq(byCat, InPri) ELSE byCat

Shown(rows, id) == \E i \in DOMAIN rows : rows[i].id = id

\* Row id of the listing is drawn under some choice of the two multiselect
\* filters (it is not missing under every choice).
Visible(rows, id) ==
  /\ Shown(rows, id)
  /\ ~(\A fc \in SUBSET categories(rows) : \A fp \in SUBSET PriorityOptions :
         ~Shown(filter_by(rows, fc, fp), id))

\* for t in todos: if t["id"] == id: <change t>; break
FirstIndex(todos, id) ==
  CHOOSE i \in DOMAIN todos :
    /\ todos[i].id = id
    /\ \A j \in 1..(i - 1) : todos[j].id # id

Without(todos, id) ==
  LET Keep(t) == t.id # id IN SelectSeq(todos, Keep)

\* ------------------------------------------------------------------ init
NoView == [tab |-> "none", cats |-> {}, pris |-> {}, rows |-> <<>>]

NoMetrics ==
  [shown |-> FALSE, total |-> 0, completed |-> 0, remaining |-> 0, rate |-> 0]

\* The record of one script run: the operation, the id it was aimed at (or
\* assigned), the title typed into the add form, the kind of file it found,
\* whether its save_todos ran ("none", "ok", "fail"), the messages shown by
\* st.error, and the list the sidebar's load_todos returned.
Did(op, id, title, pre, save, errs, ret) ==
  [op |-> op, id |-> id, title |-> title, pre |-> pre, save |-> save,
   errs |-> errs, ret |-> ret]

Init ==
  /\ file \in { Absent, Garbage, NotList, ListFile(<<>>) }
  /\ editing = {}
  /\ last = Did("start", 0, <<>>, file.kind, "none", {}, <<>>)
  /\ issued = 0
  /\ view = NoView
  /\ metrics = NoMetrics

\* ------------------------------------------------------------------ runs
SaveStatus(s) == IF s.ok THEN "ok" ELSE "fail"

\* A run with no widget fired (first visit, "Refresh Data"): the sidebar loads.
Refresh(o1) ==
  LET l == load_todos(file, o1)
  IN  /\ file' = l.file
      /\ last' = Did("load", 0, <<>>, file.kind, "none", l.errs, l.data)
      /\ UNCHANGED <<editing, issued, view, metrics>>

\* render_todo_input: the "Add To-Do" form was submitted.
Add(todo_title, todo_priority, todo_category, o1, o2) ==
  /\ IF strip(todo_title) # <<>>
     THEN LET l == load_todos(file, o1)
              id == get_next_id(l.data)
              new_todo == [id |-> id, title |-> strip(todo_title),
                           priority |-> todo_priority,
                           category |-> strip(todo_category),
                           completed |-> FALSE]
              s == save_todos(l.file, Append(l.data, new_todo), o2)
          IN  /\ Len(l.data) < MaxTasks
              /\ id <= MaxId
              /\ file' = s.file
              /\ issued' = IF s.ok /\ id > issued THEN id ELSE issued
              /\ last' = Did("add", id, todo_title, file.kind, SaveStatus(s),
                             l.errs \cup s.errs, <<>>)
     ELSE /\ file' = file
          /\ issued' = issued
          /\ last' = Did("add", 0, todo_title, file.kind, "none",
                         {"validation"}, <<>>)
  /\ UNCHANGED <<editing, view, metrics>>

\* A faulty variant: the loop marks every task, not only the one with the id.
CompleteEvery(id, o1, o2) ==
  LET l == load_todos(file, o1)
      todos == [i \in DOMAIN l.data |-> [l.data[i] EXCEPT !.completed = TRUE]]
      s == save_todos(l.file, todos, o2)
  IN  /\ Visible(active_todos(l.data), id)
      /\ file' = s.file
      /\ last' = Did("complete", id, <<>>, file.kind, SaveStatus(s),
                     l.errs \cup s.errs, <<>>)
      /\ UNCHANGED <<editing, issued, view, metrics>>

\* render_todo_display: the "complete_<id>" button.
Complete(id, o1, o2) ==
  LET l == load_todos(file, o1)
      todos == [l.data EXCEPT ![FirstIndex(l.data, id)].completed = TRUE]
      s == save_todos(l.file, todos, o2)
  IN  /\ Visible(active_todos(l.data), id)
      /\ file' = s.file
      /\ last' = Did("complete", id, <<>>, file.kind, SaveStatus(s),
                     l.errs \cup s.errs, <<>>)
      /\ UNCHANGED <<editing, issued, view, metrics>>

\* render_todo_display: the "edit_<id>" button.
EditClick(id, o1) ==
  LET l == load_todos(file, o1)
  IN  /\ Visible(active_todos(l.data), id)
      /\ editing' = editing \cup {id}
      /\ file' = l.file
      /\ last' = Did("editclick", id, <<>>, file.kind, "none", l.errs, <<>>)
      /\ UNCHANGED <<issued, view, metrics>>

\* render_todo_display: the "delete_<id>" button.
Delete(id, o1, o2) ==
  LET l == load_todos(file, o1)
      s == save_todos(l.file, Without(l.data, id), o2)
  IN  /\ Visible(active_todos(l.data), id)
      /\ file' = s.file
      /\ last' = Did("delete", id, <<>>, file.kind, SaveStatus(s),
                     l.errs \cup s.errs, <<>>)
      /\ UNCHANGED <<editing, issued, view, metrics>>

\* render_todo_display: "Save" in the edit form of row id.
EditSave(id, new_title, new_category, new_priority, o1, o2) ==
  LET l == load_todos(file, o1)
      i == FirstIndex(l.data, id)
      todos == [l.data EXCEPT ![i].title = strip(new_title),
                              ![i].category = strip(new_category),
                              ![i].priority = new_priority]
      s == save_todos(l.file, todos, o2)
  IN  /\ Visible(active_todos(l.data), id)
      /\ id \in editing
      /\ file' = s.file
      /\ editing' = editing \ {id}
      /\ last' = Did("edit", id, <<>>, file.kind, SaveStatus(s),
                     l.errs \cup s.errs, <<>>)
      /\ UNCHANGED <<issued, view, metrics>>

\* render_todo_display: "Cancel" in the edit form of row id.
EditCancel(id, o1) ==
  LET l == load_todos(file, o1)
  IN  /\ Visible(active_todos(l.data), id)
      /\ id \in editing
      /\ editing' = editing \ {id}
      /\ file' = l.file
      /\ last' = Did("cancel", id, <<>>, file.kind, "none", l.errs, <<>>)
      /\ UNCHANGED <<issued, view, metrics>>

\* render_completed_todos: the "undo_<id>" button.
Uncomplete(id, o1, o2) ==
  LET l == load_todos(file, o1)
      todos == [l.data EXCEPT ![FirstIndex(l.data, id)].completed = FALSE]
      s == save_todos(l.file, todos, o2)
  IN  /\ Visible(completed_todos(l.data), id)
      /\ file' = s.file
      /\ last' = Did("uncomplete", id, <<>>, file.kind, SaveStatus(s),
                     l.errs \cup s.errs, <<>>)
      /\ UNCHANGED <<editing, issued, view, metrics>>

\* render_completed_todos: the "delete_completed_<id>" button.
DeleteCompleted(id, o1, o2) ==
  LET l == load_todos(file, o1)
      s == save_todos(l.file, Without(l.data, id), o2)
  IN  /\ Visible(completed_todos(l.data), id)
      /\ file' = s.file
      /\ last' = Did("delete", id, <<>>, file.kind, SaveStatus(s),
                     l.errs \cup s.errs, <<>>)
      /\ UNCHANGED <<editing, issued, view, metrics>>

\* A faulty variant: the comprehension keeps the completed tasks instead of the others.
ClearKeepsCompleted(o1, o2) ==
  LET l == load_todos(file, o1)
      s == save_todos(l.file, completed_todos(l.data), o2)
  IN  /\ completed_todos(l.data) # <<>>
      /\ file' = s.file
      /\ last' = Did("clear", 0, <<>>, file.kind, SaveStatus(s),
                     l.errs \cup s.errs, <<>>)
      /\ UNCHANGED <<editing, issued, view, metrics>>

\* render_completed_todos: the "Clear All Completed" button, which is drawn
\* only when some task is completed.
ClearCompleted(o1, o2) ==
  LET l == load_todos(file, o1)
      s == save_todos(l.file, active_todos(l.data), o2)
  IN  /\ completed_todos(l.data) # <<>>
      /\ file' = s.file
      /\ last' = Did("clear", 0, <<>>, file.kind, SaveStatus(s),
                     l.errs \cup s.errs, <<>>)
      /\ UNCHANGED <<editing, issued, view, metrics>>

\* The widgets keyed by a task id, and whether a run with no filter chosen
\* draws them.
Widgets ==
  { "complete", "edit", "delete", "save", "cancel", "undo", "delete_completed" }

Rendered(widget, id, todos) ==
  CASE widget \in {"complete", "edit", "delete"} ->
         Shown(active_todos(todos), id)
    [] widget \in {"save", "cancel"} ->
         Shown(active_todos(todos), id) /\ id \in editing
    [] widget \in {"undo", "delete_completed"} ->
         Shown(completed_todos(todos), id)

\* A click on a widget keyed by id that the run does not draw (its row is gone
\* or in the other tab, as on a double click): no button returns True, the run
\* only loads and renders.
StaleClick(id, o1) ==
  LET l == load_todos(file, o1)
  IN  /\ ~(\A w \in Widgets : Rendered(w, id, l.data))
      /\ file' = l.file
      /\ last' = Did("ignored", id, <<>>, file.kind, "none", l.errs, <<>>)
      /\ UNCHANGED <<editing, issued, view, metrics>>

\* The outcomes of the write load_todos makes: it writes only a missing file.
InitOutcomes == IF file.kind = "absent" THEN SaveOutcomes ELSE {"ok"}

Next ==
  \/ \E o1 \in InitOutcomes : Refresh(o1)
  \/ \E f \in Forms, o1 \in InitOutcomes, o2 \in SaveOutcomes :
        Add(f.title, f.priority, f.category, o1, o2)
  \/ \E id \in 1..MaxId, o1 \in InitOutcomes, o2 \in SaveOutcomes :
        Complete(id, o1, o2)
  \/ \E id \in 1..MaxId, o1 \in InitOutcomes : EditClick(id, o1)
  \/ \E id \in 1..MaxId, o1 \in InitOutcomes, o2 \in SaveOutcomes :
        Delete(id, o1, o2)
  \/ \E id \in 1..MaxId, f \in Forms, o1 \in InitOutcomes,
        o2 \in SaveOutcomes :
        EditSave(id, f.title, f.category, f.priority, o1, o2)
  \/ \E id \in 1..MaxId, o1 \in InitOutcomes : EditCancel(id, o1)
  \/ \E id \in 1..MaxId, o1 \in InitOutcomes, o2 \in SaveOutcomes :
        Uncomplete(id, o1, o2)
  \/ \E id \in 1..MaxId, o1 \in InitOutcomes, o2 \in SaveOutcomes :
        DeleteCompleted(id, o1, o2)
  \/ \E o1 \in InitOutcomes, o2 \in SaveOutcomes : ClearCompleted(o1, o2)
  \/ \E id \in 1..MaxId, o1 \in InitOutcomes : StaleClick(id, o1)

Spec == Init /\ [][Next]_vars

\* ------------------------------------------------------------------ filter
\* The lists a run of adds, edits and completions leaves: ids 1..n in order.
Lists(n, cats, pris, flags) ==
  { [i \in 1..n |-> [id |-> i, title |-> <<"a">>, priority |-> v[i][2],
                     category |-> v[i][1], completed |-> v[i][3]]] :
      v \in [1..n -> cats \X pris \X flags] }

ListsUpTo(n, cats, pris, flags) ==
  UNION { Lists(k, cats, pris, flags) : k \in 0..n }

InitFilter ==
  /\ file \in { ListFile(t) :
                  t \in ListsUpTo(MaxFilterLen, FilterCategories,
                                  FilterPriorities, BOOLEAN) }
  /\ editing = {}
  /\ last = Did("start", 0, <<>>, file.kind, "none", {}, <<>>)
  /\ issued = Len(file.data)
  /\ view = NoView
  /\ metrics = NoMetrics

\* render_todo_display: the listing of the Active tab under the two filters.
ShowActive(filter_category, filter_priority, o1) ==
  LET l == load_todos(file, o1)
      active == active_todos(l.data)
  IN  /\ view = NoView
      /\ active # <<>>
      /\ filter_category \subseteq categories(active)
      /\ view' = [tab |-> "active", cats |-> filter_category,
                  pris |-> filter_priority,
                  rows |-> filter_by(active, filter_category, filter_priority)]
      /\ file' = l.file
      /\ last' = Did("filter", 0, <<>>, file.kind, "none", l.errs, <<>>)
      /\ UNCHANGED <<editing, issued, metrics>>

\* render_completed_todos: the listing of the Completed tab.
ShowCompleted(filter_category, filter_priority, o1) ==
  LET l == load_todos(file, o1)
      completed == completed_todos(l.data)
  IN  /\ view = NoView
      /\ completed # <<>>
      /\ filter_category \subseteq categories(completed)
      /\ view' = [tab |-> "completed", cats |-> filter_category,
                  pris |-> filter_priority,
                  rows |-> filter_by(completed, filter_category,
                                     filter_priority)]
      /\ file' = l.file
      /\ last' = Did("filter", 0, <<>>, file.kind, "none", l.errs, <<>>)
      /\ UNCHANGED <<editing, issued, metrics>>

NextFilter ==
  \/ \E fc \in SUBSET FilterCategories, fp \in SUBSET PriorityOptions,
        o1 \in InitOutcomes : ShowActive(fc, fp, o1)
  \/ \E fc \in SUBSET FilterCategories, fp \in SUBSET PriorityOptions,
        o1 \in InitOutcomes : ShowCompleted(fc, fp, o1)

SpecFilter == InitFilter /\ [][NextFilter]_vars

\* --------------------------------------------------------------- analytics
\* A faulty variant: the rate is cut to one decimal instead of rounded.
RoundTenthsDown(completed, total) == (1000 * completed) \div total

\* round(x, 1) of x = 100 * completed / total, in tenths: to the nearest
\* tenth, a tie to the even one.
RoundTenths(completed, total) ==
  LET n == 1000 * completed
      q == n \div total
      r == n % total
  IN  IF 2 * r < total THEN q
      ELSE IF 2 * r > total THEN q + 1
      ELSE IF q % 2 = 0 THEN q ELSE q + 1

\* render_analytics: the four metrics, or none of them for an empty list.
render_analytics(todos) ==
  IF todos = <<>>
  THEN NoMetrics
  ELSE LET completed == Len(completed_todos(todos))
       IN  [shown |-> TRUE, total |-> Len(todos), completed |-> completed,
            remaining |-> Len(todos) - completed,
            rate |-> RoundTenths(completed, Len(todos))]

InitAnalytics ==
  /\ file \in { Absent, Garbage, NotList }
        \cup { ListFile(t) :
                 t \in ListsUpTo(MaxAnalyticsLen, {<<>>}, {"Low"}, BOOLEAN) }
  /\ editing = {}
  /\ last = Did("start", 0, <<>>, file.kind, "none", {}, <<>>)
  /\ issued = Len(file.data)
  /\ view = NoView
  /\ metrics = NoMetrics

Analytics(o1) ==
  LET l == load_todos(file, o1)
  IN  /\ metrics' = render_analytics(l.data)
      /\ file' = l.file
      /\ last' = Did("analytics", 0, <<>>, file.kind, "none", l.errs, <<>>)
      /\ UNCHANGED <<editing, issued, view>>

NextAnalytics == \E o1 \in InitOutcomes : Analytics(o1)

SpecAnalytics == InitAnalytics /\ [][NextAnalytics]_vars

\* ------------------------------------------------------------------ claims
Blank(text) == \A i \in DOMAIN text : text[i] = SP

\* The k-th smallest member of a set of indices, and the subsequence of seq at
\* the indices in S, in their order.
Nth(S, k) == CHOOSE i \in S : Cardinality({ j \in S : j <= i }) = k

At(seq, S) == [k \in 1..Cardinality(S) |-> seq[Nth(S, k)]]

\* C1: the tasks of the persisted list have pairwise different ids.
C1_UniqueIds ==
  \A i, j \in DOMAIN file.data :
    i # j => file.data[i].id # file.data[j].id

C1_Witness ==
  /\ last.op = "add" /\ last.save = "ok"
  /\ Len(file.data) = 2
  /\ file.data[1].completed

\* C2: on a file that holds the list, the id an add assigns is greater than
\* every id an earlier add assigned, those of tasks removed since included.
C2_IdsNeverReused ==
  [][(file.kind = "list" /\ last'.op = "add" /\ last'.save = "ok") =>
       last'.id > issued]_vars

\* C3: an add whose title is empty or all whitespace shows the validation
\* error, does not call save_todos and leaves the file as it was.
C3_BlankAddRejected ==
  [][(last'.op = "add" /\ Blank(last'.title)) =>
       /\ file' = file
       /\ last'.save = "none"
       /\ last'.errs = {"validation"}]_vars

C3_Witness ==
  /\ last.op = "add" /\ last.title = <<SP>>
  /\ last.errs = {"validation"}
  /\ Len(file.data) = 1

\* C4: load_todos on a file that is not a JSON array (unparseable, or JSON of
\* another shape) returns the empty list and shows an error.
C4_LoadReportsError ==
  (last.op = "load" /\ last.pre \in {"garbage", "notlist"}) =>
    (last.ret = <<>> /\ "load" \in last.errs)

\* C5: every task of the persisted list has a title with a character that is
\* not whitespace.
C5_TitlesNotBlank ==
  \A i \in DOMAIN file.data : ~Blank(file.data[i].title)

C7_OnlyTheTarget ==
  [][/\ (last'.op \in {"complete", "uncomplete", "edit"}
           /\ last'.save = "ok") =>
          /\ file'.kind = "list"
          /\ Len(file'.data) = Len(file.data)
          /\ \A i \in DOMAIN file.data :
               /\ file'.data[i].id = file.data[i].id
               /\ file.data[i].id # last'.id => file'.data[i] = file.data[i]
               /\ last'.op = "complete" =>
                    file'.data[i] =
                      [file.data[i] EXCEPT
                         !.completed = @ \/ file.data[i].id = last'.id]
               /\ last'.op = "uncomplete" =>
                    file'.data[i] =
                      [file.data[i] EXCEPT
                         !.completed = @ /\ file.data[i].id # last'.id]
               /\ last'.op = "edit" =>
                    file'.data[i].completed = file.data[i].completed
     /\ (last'.op \in {"complete", "uncomplete", "edit", "delete", "editclick",
                       "cancel", "ignored"}
           /\ last'.id \notin Ids(file.data)) =>
          /\ file'.data = file.data
          /\ last'.save = "none"
          /\ file.kind = "list" => (file' = file /\ last'.errs = {})]_vars

C7_Witness ==
  /\ last.op = "complete" /\ last.save = "ok"
  /\ Len(file.data) = 2
  /\ file.data[2].id = last.id
  /\ file.data[2].completed
  /\ ~file.data[1].completed

\* C8: the filtered listing is exactly the rows, in their order, whose
\* category is among the chosen categories (when any is chosen) and whose
\* priority is among the chosen priorities (when any is chosen); with nothing
\* chosen it is the whole listing.
C8_Listing ==
  IF view.tab = "active"
  THEN At(file.data, { i \in DOMAIN file.data : ~file.data[i].completed })
  ELSE At(file.data, { i \in DOMAIN file.data : file.data[i].completed })

C8_FilterBy ==
  last.op = "filter" =>
    LET rows == C8_Listing
        keep == { i \in DOMAIN rows :
                    /\ view.cats = {} \/ rows[i].category \in view.cats
                    /\ view.pris = {} \/ rows[i].priority \in view.pris }
    IN  /\ view.rows = At(rows, keep)
        /\ (view.cats = {} /\ view.pris = {}) => view.rows = rows

C8_Witness ==
  /\ last.op = "filter"
  /\ view.cats = {<<"w">>} /\ view.pris = {"High"}
  /\ Len(C8_Listing) = 3
  /\ C8_Listing[2].category = <<"w">> /\ C8_Listing[2].priority = "Low"
  /\ C8_Listing[3].category = <<"h">> /\ C8_Listing[3].priority = "High"
  /\ Len(view.rows) = 1
  /\ view.rows[1].id = C8_Listing[1].id

\* C9: analytics shows total = the number of tasks, completed = the number of
\* completed tasks, remaining = total - completed and the rate = 100 *
\* completed / total to the nearest tenth (25.0 for 1 of 4); for an empty list
\* it shows no metric and divides nothing.
C9_Analytics ==
  last.op = "analytics" =>
    LET n == Len(file.data)
        c == Cardinality({ i \in DOMAIN file.data : file.data[i].completed })
        d == metrics.rate * n - 1000 * c
    IN  IF n = 0
        THEN ~metrics.shown
        ELSE /\ metrics.shown
             /\ metrics.total = n
             /\ metrics.completed = c
             /\ metrics.remaining = n - c
             /\ 2 * d <= n /\ 2 * d >= -n
             /\ (n = 4 /\ c = 1) => metrics.rate = 250

C9_Witness ==
  /\ last.op = "analytics"
  /\ metrics.shown
  /\ metrics.total = 4 /\ metrics.completed = 1
  /\ metrics.rate = 250

\* C10: an add with a title that is not blank, on a file that exists but is
\* not a JSON array, whose save succeeds, leaves a list of one task, the new
\* one, with id 1.
C10_AddOverwrites ==
  (last.op = "add" /\ ~Blank(last.title) /\ last.save = "ok"
     /\ last.pre \in {"garbage", "notlist"}) =>
    /\ file.kind = "list"
    /\ Len(file.data) = 1
    /\ file.data[1].id = 1
    /\ file.data[1].id = last.id
    /\ ~file.data[1].completed
    /\ ~Blank(file.data[1].title)

C10_Witness ==
  /\ last.op = "add" /\ last.save = "ok"
  /\ last.pre = "notlist"
  /\ file.kind = "list" /\ Len(file.data) = 1

====
